---- MODULE Spec2Model ----
(***************************************************************************)
(* Book Notes application (Express + PostgreSQL): the request handlers of  *)
(* index.js as a state machine over the books table.                       *)
(*                                                                         *)
(* Text values that the code inspects (title, author, rating, search) are  *)
(* sequences of one-character strings; values it only passes through       *)
(* (isbn, notes, messages, view names) are opaque strings.                 *)
(*                                                                         *)
(* The only state shared between requests is the books table, and every    *)
(* handler touches it with a single SQL statement.  The remaining          *)
(* variables are the local state of the request being served; a new        *)
(* request starts once the previous one has been answered or abandoned.    *)
(***************************************************************************)
EXTENDS Integers, Sequences, FiniteSets, TLC

VARIABLES
    variant,       \* which of the two index.js files is running
    store,         \* rows of table books
    nextId,        \* next value of the serial id column
    req,           \* the request being served
    dbErr,         \* how the request's db.query ended
    res,           \* the response sent for the request (status 0: none)
    books,         \* GET /: result.rows, mutated in place by the map callback
    lookup,        \* GET /: per row, the state of its cover lookup
    finished,      \* GET /: row indexes in the order their promises settled
    updatedBooks   \* GET /: the array Promise.all resolved to

vars == <<variant, store, nextId, req, dbErr, res, books, lookup, finished, updatedBooks>>

----------------------------------------------------------------------------
(* Bounds *)

MaxId == 2

----------------------------------------------------------------------------
(* Characters and text *)

Digits == {"0", "1", "2", "3", "4", "5", "6", "7", "8", "9"}

DigitVal(c) ==
    CASE c = "0" -> 0 [] c = "1" -> 1 [] c = "2" -> 2 [] c = "3" -> 3
      [] c = "4" -> 4 [] c = "5" -> 5 [] c = "6" -> 6 [] c = "7" -> 7
      [] c = "8" -> 8 [] c = "9" -> 9

\* Code point of the characters that occur in titles (ORDER BY title).
CharCode(c) ==
    CASE c = "%" -> 37 [] c = "A" -> 65 [] c = "B" -> 66 [] c = "C" -> 67
      [] c = "_" -> 95 [] c = "a" -> 97 [] c = "b" -> 98 [] c = "c" -> 99
      [] OTHER -> 0

Lower(c) ==
    CASE c = "A" -> "a" [] c = "B" -> "b" [] c = "C" -> "c" [] OTHER -> c

LowerStr(s) == [i \in 1..Len(s) |-> Lower(s[i])]

RECURSIVE StrLess(_, _)
StrLess(s, t) ==
    IF t = <<>> THEN FALSE
    ELSE IF s = <<>> THEN TRUE
    ELSE IF CharCode(Head(s)) # CharCode(Head(t))
         THEN CharCode(Head(s)) < CharCode(Head(t))
         ELSE StrLess(Tail(s), Tail(t))

StrLeq(s, t) == s = t \/ StrLess(s, t)

\* s contains t as a contiguous substring
Contains(s, t) ==
    \E k \in 0..(Len(s) - Len(t)) : \A i \in 1..Len(t) : s[k + i] = t[i]

----------------------------------------------------------------------------
(* Validation: express-validator chains of bookValidationRules *)

Null == "<null>"

\* validator.js isEmpty without ignore_whitespace: length 0
NotEmpty(s) == Len(s) # 0

\* validator.js isInt: /^[-+]?[0-9]+$/ (leading zeroes allowed by default)
IntRegex(s) ==
    /\ Len(s) >= 1
    /\ LET d == IF s[1] \in {"+", "-"} THEN Tail(s) ELSE s
       IN  Len(d) >= 1 /\ \A i \in 1..Len(d) : d[i] \in Digits

RECURSIVE DigitsVal(_)
DigitsVal(d) ==
    IF d = <<>> THEN 0
    ELSE 10 * DigitsVal(SubSeq(d, 1, Len(d) - 1)) + DigitVal(d[Len(d)])

\* numeric value of a string that matches IntRegex
ToNumber(s) ==
    IF s[1] = "-" THEN 0 - DigitsVal(Tail(s))
    ELSE IF s[1] = "+" THEN DigitsVal(Tail(s))
    ELSE DigitsVal(s)

IsInt(s, min, max) == IntRegex(s) /\ ToNumber(s) >= min /\ ToNumber(s) <= max

MsgTitle == "Title is required"
MsgAuthor == "Author name is required"
MsgRating == "Rating must be a whole number between 1 & 5"

TitleRuleOff(b) == <<>>
TitleRule(b) == IF NotEmpty(b.title) THEN <<>> ELSE <<MsgTitle>>

AuthorRule(b) == IF NotEmpty(b.author) THEN <<>> ELSE <<MsgAuthor>>

RatingRuleOff(b) == <<>>
RatingRule(b) == IF IsInt(b.rating, 1, 5) THEN <<>> ELSE <<MsgRating>>

\* validationResult(req).array(): every chain runs, errors in chain order
ValidationResultFailFast(b) ==
    IF TitleRule(b) # <<>> THEN TitleRule(b)
    ELSE IF AuthorRule(b) # <<>> THEN AuthorRule(b)
    ELSE RatingRule(b)
ValidationResult(b) == TitleRule(b) \o AuthorRule(b) \o RatingRule(b)

----------------------------------------------------------------------------
(* The books table: id serial, title, author, rating integer with a check  *)
(* constraint, cover_identifier, notes                                     *)

\* input conversion of a text parameter bound to the integer column
PgIsInteger(s) == IntRegex(s)
PgInteger(s) == ToNumber(s)

\* CHECK (rating BETWEEN 1 AND 5)
RatingCheck(n) == n >= 1 /\ n <= 5

\* a parameter that is undefined in JavaScript is sent as NULL
PgParam(v) == v

Row(id, b) ==
    [id |-> id, title |-> b.title, author |-> b.author,
     rating |-> PgInteger(b.rating),
     cover_identifier |-> PgParam(b.isbn), notes |-> PgParam(b.notes)]

\* how a statement that writes title, author, rating, ... ends: "none", or
\* the kind of message the thrown error carries
WriteError(b, fault) ==
    IF fault THEN "other"
    ELSE IF ~PgIsInteger(b.rating) THEN "syntax"
    ELSE IF ~RatingCheck(PgInteger(b.rating)) THEN "check"
    ELSE "none"

\* INSERT INTO books (title, author, rating, cover_identifier, notes) VALUES ...
DbInsert(st, id, b) == st \cup {Row(id, b)}

\* UPDATE books SET ... WHERE id = $6
DbUpdate(st, id, b) == {IF r.id = id THEN Row(id, b) ELSE r : r \in st}

\* DELETE FROM books WHERE id = $1
DbDeleteOthers(st, id) == {r \in st : r.id = id}
DbDelete(st, id) == {r \in st : r.id # id}

\* SELECT * FROM books WHERE id = $1
DbSelectById(st, id) == {r \in st : r.id = id}

\* LIKE: % matches any sequence, _ any one character, \ quotes the next one
RECURSIVE Like(_, _)
Like(s, pat) ==
    IF pat = <<>> THEN s = <<>>
    ELSE IF Head(pat) = "%"
         THEN Like(s, Tail(pat)) \/ (s # <<>> /\ Like(Tail(s), pat))
    ELSE IF Head(pat) = "_"
         THEN s # <<>> /\ Like(Tail(s), Tail(pat))
    ELSE IF Head(pat) = "\\"
         THEN /\ Len(pat) >= 2
              /\ s # <<>>
              /\ Head(s) = pat[2]
              /\ Like(Tail(s), Tail(Tail(pat)))
    ELSE s # <<>> /\ Head(s) = Head(pat) /\ Like(Tail(s), Tail(pat))

\* ILIKE: LIKE on the case-folded operands
ILike(s, pat) == Like(LowerStr(s), LowerStr(pat))

\* if (search) { searchQuery = WHERE title ILIKE $1 OR author ILIKE $1;
\*               searchValues.push(`%${search}%`) }
SearchPattern(search) == <<"%">> \o search \o <<"%">>

SearchQuery(search, r) ==
    IF search # <<>>
    THEN ILike(r.title, SearchPattern(search)) \/ ILike(r.author, SearchPattern(search))
    ELSE TRUE

\* if (sort === 'rating') ... else if (sort === 'alphabetical') ...
SortQueryAscending(sort) ==
    IF sort = "rating" THEN "ORDER BY rating ASC"
    ELSE IF sort = "alphabetical" THEN "ORDER BY title ASC"
    ELSE ""
SortQuery(sort) ==
    IF sort = "rating" THEN "ORDER BY rating DESC"
    ELSE IF sort = "alphabetical" THEN "ORDER BY title ASC"
    ELSE ""

\* the orders of rows r, s a result may have under an ORDER BY clause
Before(orderBy, r, s) ==
    CASE orderBy = "ORDER BY rating DESC" -> r.rating >= s.rating
      [] orderBy = "ORDER BY rating ASC" -> r.rating <= s.rating
      [] orderBy = "ORDER BY title ASC" -> StrLeq(r.title, s.title)
      [] OTHER -> TRUE

\* every sequence that lists each row of S once
Arrangements(S) ==
    {f \in [1..Cardinality(S) -> S] : \A i, j \in 1..Cardinality(S) : i # j => f[i] # f[j]}

\* SELECT * FROM books ${searchQuery} ${sortQuery}: the possible result.rows.
\* Without ORDER BY, and among rows with equal keys, the order is the
\* database's choice.
DbSelect(st, search, orderBy) ==
    LET hits == {r \in st : SearchQuery(search, r)}
    IN  {f \in Arrangements(hits) :
            \A i, j \in 1..Len(f) : i < j => Before(orderBy, f[i], f[j])}

----------------------------------------------------------------------------
(* Cover resolution: the callback of books.map in GET / *)

Fallback == <<"https://www.press.uillinois.edu/books/images/no_cover.jpg">>
Unset == <<>>

OpenLibraryUrl(isbn) == <<"http://covers.openlibrary.org/b/isbn/", isbn, "-L.jpg">>
GoogleUrl(volume) == <<"https://books.google.com/books/content?id=", volume>>

\* how axios.get can end: the request fails, or it succeeds; the Google
\* Books answer carries no items or a first item with a volume id
Outcomes(v) ==
    IF v = "openlibrary" THEN {"failed", "ok"} ELSE {"failed", "noitems", "vol1"}

\* if (book.cover_identifier)
Truthy(v) == v # "" /\ v # Null

\* the part of the callback after the awaited axios.get, for one row
ResolveCoverUnchecked(v, book, outcome) ==
    IF v = "openlibrary"
    THEN OpenLibraryUrl(book.cover_identifier)
    ELSE GoogleUrl(outcome)
ResolveCover(v, book, outcome) ==
    IF v = "openlibrary"
    THEN IF outcome = "ok" THEN OpenLibraryUrl(book.cover_identifier) ELSE Fallback
    ELSE IF outcome = "failed" THEN Fallback
         ELSE IF outcome = "noitems" THEN Fallback
         ELSE GoogleUrl(outcome)

\* the part of the callback that runs inside books.map, before any await
MapStart(row) ==
    [id |-> row.id, title |-> row.title, author |-> row.author,
     rating |-> row.rating, cover_identifier |-> row.cover_identifier,
     notes |-> row.notes,
     cover_url |-> IF Truthy(row.cover_identifier) THEN Unset ELSE Fallback]

LookupStart(row) == IF Truthy(row.cover_identifier) THEN "pending" ELSE "nocover"

\* the callback resumes for row i and writes book.cover_url
SettleLookupShared(v, bs, i, outcome) ==
    [bs EXCEPT ![Len(bs)].cover_url = ResolveCover(v, bs[i], outcome)]
SettleLookup(v, bs, i, outcome) ==
    [bs EXCEPT ![i].cover_url = ResolveCover(v, bs[i], outcome)]

\* Promise.all: fulfilled once every promise is, with the values in the
\* order of the input array
AllSettled(lk) == \A i \in 1..Len(lk) : lk[i] # "pending"

PromiseAllByCompletion(bs, fin) == [k \in 1..Len(fin) |-> bs[fin[k]]]
PromiseAll(bs, fin) == [k \in 1..Len(bs) |-> bs[k]]

----------------------------------------------------------------------------
(* Requests and responses *)

NoBody == [title |-> <<>>, author |-> <<>>, rating |-> <<>>, isbn |-> "", notes |-> ""]

Request(kind, id, body, sort, search) ==
    [kind |-> kind, id |-> id, body |-> body, sort |-> sort, search |-> search]

NoResponse == [status |-> 0, view |-> "", errors |-> <<>>, location |-> "", book |-> {}]

\* res.status(status).render(view, { errors })
Render(status, view, errors) ==
    [status |-> status, view |-> view, errors |-> errors, location |-> "", book |-> {}]

\* res.redirect("/")
Redirect(location) ==
    [status |-> 302, view |-> "", errors |-> <<>>, location |-> location, book |-> {}]

\* app.use((err, req, res, next) => res.status(500).render('error.ejs', ...))
ErrorMiddleware(message) == Render(500, "error.ejs", <<message>>)

DbErrorMessage == "database error"

\* GET /books/edit/:id declares (req, res) only, so the next(err) of its
\* catch block throws a ReferenceError inside the async handler.  Express 4
\* drops the rejected promise and the request is never answered; Express 5
\* forwards the rejection to the error middleware.
UnboundNext == {NoResponse, ErrorMiddleware("next is not defined")}

----------------------------------------------------------------------------
(* Inputs *)

Bodies ==
    { [title |-> <<"a", "b">>, author |-> <<"C">>, rating |-> <<"5">>, isbn |-> "x", notes |-> ""],
      [title |-> <<"a">>, author |-> <<"b">>, rating |-> <<"0", "3">>, isbn |-> "", notes |-> "n"],
      [title |-> <<>>, author |-> <<"C">>, rating |-> <<"5">>, isbn |-> "x", notes |-> ""],
      [title |-> <<"a">>, author |-> <<>>, rating |-> <<"6">>, isbn |-> "", notes |-> ""],
      [title |-> <<>>, author |-> <<>>, rating |-> <<"a", "b", "c">>, isbn |-> "x", notes |-> ""],
      [title |-> <<"b">>, author |-> <<"C">>, rating |-> <<"2", ".", "5">>, isbn |-> Null, notes |-> ""],
      [title |-> <<"a">>, author |-> <<"b">>, rating |-> <<"0">>, isbn |-> "", notes |-> ""] }

Searches == {<<>>, <<"c">>, <<"a", "B">>, <<"_">>, <<"%">>}

Sorts == {"rating", "alphabetical", ""}

Ids == 1..(MaxId + 1)

----------------------------------------------------------------------------
(* The state machine *)

Init ==
    /\ variant \in {"openlibrary", "googlebooks"}
    /\ store = {}
    /\ nextId = 1
    /\ req = Request("none", 0, NoBody, "", <<>>)
    /\ dbErr = "none"
    /\ res = NoResponse
    /\ books = <<>>
    /\ lookup = <<>>
    /\ finished = <<>>
    /\ updatedBooks = <<>>

\* a listing whose cover lookups are still in flight
ListPending == req.kind = "list" /\ res.status = 0

\* a request other than GET / has no rows of its own
NoListing ==
    /\ books' = <<>>
    /\ lookup' = <<>>
    /\ finished' = <<>>
    /\ updatedBooks' = <<>>

\* GET /: up to the await of Promise.all
ListBooks(sort, search, fault) ==
    /\ ~ListPending
    /\ req' = Request("list", 0, NoBody, sort, search)
    /\ updatedBooks' = <<>>
    /\ UNCHANGED <<variant, store, nextId>>
    /\ IF fault
       THEN /\ dbErr' = "other"
            /\ res' = ErrorMiddleware(DbErrorMessage)
            /\ books' = <<>>
            /\ lookup' = <<>>
            /\ finished' = <<>>
       ELSE \E rows \in DbSelect(store, search, SortQuery(sort)) :
            /\ dbErr' = "none"
            /\ res' = NoResponse
            /\ books' = [i \in 1..Len(rows) |-> MapStart(rows[i])]
            /\ lookup' = [i \in 1..Len(rows) |-> LookupStart(rows[i])]
            /\ finished' = SelectSeq([i \in 1..Len(rows) |-> i],
                                     LAMBDA i : LookupStart(rows[i]) = "nocover")

\* GET /: the axios.get of row i ends and the callback runs to its return
LookupDone(i, outcome) ==
    /\ ListPending
    /\ i \in 1..Len(books)
    /\ lookup[i] = "pending"
    /\ outcome \in Outcomes(variant)
    /\ books' = SettleLookup(variant, books, i, outcome)
    /\ lookup' = [lookup EXCEPT ![i] = outcome]
    /\ finished' = Append(finished, i)
    /\ UNCHANGED <<variant, store, nextId, req, dbErr, res, updatedBooks>>

\* GET /: Promise.all is fulfilled, index.ejs is rendered and the handler
\* returns, which drops its local arrays
ListRender ==
    /\ ListPending
    /\ AllSettled(lookup)
    /\ updatedBooks' = PromiseAll(books, finished)
    /\ res' = Render(200, "index.ejs", <<>>)
    /\ books' = <<>>
    /\ lookup' = <<>>
    /\ finished' = <<>>
    /\ UNCHANGED <<variant, store, nextId, req, dbErr>>

\* GET /books/add
AddForm ==
    /\ ~ListPending
    /\ req' = Request("addForm", 0, NoBody, "", <<>>)
    /\ dbErr' = "none"
    /\ res' = Render(200, "addBook.ejs", <<>>)
    /\ NoListing
    /\ UNCHANGED <<variant, store, nextId>>

\* POST /books
CreateBook(body) ==
    /\ ~ListPending
    /\ req' = Request("create", 0, body, "", <<>>)
    /\ NoListing
    /\ UNCHANGED variant
    /\ LET errors == ValidationResult(body)
       IN  IF errors # <<>>
           THEN /\ res' = Render(400, "error.ejs", errors)
                /\ dbErr' = "none"
                /\ UNCHANGED <<store, nextId>>
           ELSE \E fault \in BOOLEAN :
                LET err == WriteError(body, fault) IN
                /\ nextId <= MaxId
                /\ dbErr' = err
                /\ IF err = "none"
                   THEN /\ store' = DbInsert(store, nextId, body)
                        /\ nextId' = nextId + 1
                        /\ res' = Redirect("/")
                   ELSE /\ UNCHANGED <<store, nextId>>
                        /\ res' = IF err = "check"
                                  THEN Render(400, "error.ejs", <<"Rating must be between 1 and 5.">>)
                                  ELSE IF err = "syntax"
                                  THEN Render(400, "error.ejs", <<"Rating must be a valid number.">>)
                                  ELSE ErrorMiddleware(DbErrorMessage)

\* GET /books/edit/:id
EditForm(id, fault) ==
    /\ ~ListPending
    /\ req' = Request("editForm", id, NoBody, "", <<>>)
    /\ NoListing
    /\ UNCHANGED <<variant, store, nextId>>
    /\ IF fault
       THEN /\ dbErr' = "other"
            /\ res' \in UnboundNext
       ELSE /\ dbErr' = "none"
            /\ res' = [Render(200, "editBook.ejs", <<>>) EXCEPT !.book = DbSelectById(store, id)]

\* POST /books/edit/:id
EditBook(id, body) ==
    /\ ~ListPending
    /\ req' = Request("edit", id, body, "", <<>>)
    /\ NoListing
    /\ UNCHANGED <<variant, nextId>>
    /\ LET errors == ValidationResult(body)
       IN  IF errors # <<>>
           THEN /\ res' = Render(400, "error.ejs", errors)
                /\ dbErr' = "none"
                /\ UNCHANGED store
           ELSE \E fault \in BOOLEAN :
                LET err == WriteError(body, fault) IN
                /\ dbErr' = err
                /\ IF err = "none"
                   THEN /\ store' = DbUpdate(store, id, body)
                        /\ res' = Redirect("/")
                   ELSE /\ UNCHANGED store
                        /\ res' = ErrorMiddleware(DbErrorMessage)

\* POST /books/delete/:id
DeleteBook(id, fault) ==
    /\ ~ListPending
    /\ req' = Request("delete", id, NoBody, "", <<>>)
    /\ NoListing
    /\ UNCHANGED <<variant, nextId>>
    /\ IF fault
       THEN /\ dbErr' = "other"
            /\ UNCHANGED store
            /\ res' = ErrorMiddleware(DbErrorMessage)
       ELSE /\ dbErr' = "none"
            /\ store' = DbDelete(store, id)
            /\ res' = Redirect("/")

Next ==
    \/ \E sort \in Sorts, search \in Searches, fault \in BOOLEAN : ListBooks(sort, search, fault)
    \/ \E i \in 1..MaxId, outcome \in {"failed", "ok", "noitems", "vol1"} : LookupDone(i, outcome)
    \/ ListRender
    \/ AddForm
    \/ \E body \in Bodies : CreateBook(body)
    \/ \E id \in Ids, fault \in BOOLEAN : EditForm(id, fault)
    \/ \E id \in Ids, body \in Bodies : EditBook(id, body)
    \/ \E id \in Ids, fault \in BOOLEAN : DeleteBook(id, fault)

Spec == Init /\ [][Next]_vars

----------------------------------------------------------------------------
(* Properties *)

Range(f) == {f[i] : i \in 1..Len(f)}

StoreIds == {r.id : r \in store}

\* a listed record without the derived cover_url
Stored(b) ==
    [id |-> b.id, title |-> b.title, author |-> b.author, rating |-> b.rating,
     cover_identifier |-> b.cover_identifier, notes |-> b.notes]

\* the records of the listing being served: the rows while the lookups run,
\* the rendered array afterwards
Listed == IF ListPending THEN books ELSE updatedBooks

ListAnswered == req.kind = "list" /\ dbErr = "none"

\* the rules a submission violates, by their messages
Violations(b) ==
    (IF b.title = <<>> THEN {MsgTitle} ELSE {})
    \cup (IF b.author = <<>> THEN {MsgAuthor} ELSE {})
    \cup (IF IsInt(b.rating, 1, 5) THEN {} ELSE {MsgRating})

\* C1: every stored book has an integer rating in 1..5, a non-empty title
\* and a non-empty author, whatever creates, edits and deletes were served.
C1_StoredBooksValid ==
    \A r \in store :
        /\ r.rating \in 1..5
        /\ r.title # <<>>
        /\ r.author # <<>>

C1_Witness ==
    /\ req.kind = "edit"
    /\ res.status = 302
    /\ \E r \in store : r.id = req.id /\ r.rating = 3 /\ req.body.rating = <<"0", "3">>

\* C2: an edit whose input fails validation is answered with status 400 and
\* the error view, and leaves every record of the store as it was.
C2_InvalidEditRejected ==
    [][(req'.kind = "edit" /\ Violations(req'.body) # {})
        => /\ store' = store
           /\ res'.status = 400
           /\ res'.view = "error.ejs"]_vars

C2_Witness ==
    /\ req.kind = "edit"
    /\ req.body.rating = <<"a", "b", "c">>
    /\ res.status = 400
    /\ \E r \in store : r.id = req.id

\* C3: a failure of the store that is not translated into a rating message
\* is always answered with the error view and status 500.
C3_StoreFailureAnswered500 ==
    (dbErr = "other" \/ (dbErr # "none" /\ req.kind # "create"))
        => (res.status = 500 /\ res.view = "error.ejs")

\* C4: a delete for an identifier that is not in the store is no error: it
\* redirects to the listing and leaves the stored records as they were.
C4_DeleteMissingIsNoop ==
    [][(req'.kind = "delete" /\ req'.id \notin StoreIds)
        => /\ store' = store
           /\ dbErr' = "none" => res' = Redirect("/")
           /\ res'.status = 500 => dbErr' = "other"
           /\ res'.status \in {302, 500}]_vars

C4_Witness ==
    /\ req.kind = "delete"
    /\ req.id >= nextId
    /\ res = Redirect("/")
    /\ store # {}

FallbackCase(state) == state \in {"nocover", "failed", "noitems"}

\* C5: a record without cover identifier, or whose lookup failed or returned
\* no items, gets the fallback URL, while the lookups run and in the rendered
\* list, and such a listing is answered with the index view.
C5_FallbackCover ==
    [][/\ ListPending' =>
            \A i \in 1..Len(books') :
                FallbackCase(lookup'[i]) => books'[i].cover_url = Fallback
       /\ (ListPending /\ ~ListPending') =>
            /\ res'.status = 200
            /\ res'.view = "index.ejs"
            /\ \A i \in 1..Len(books) :
                  FallbackCase(lookup[i]) =>
                      \E k \in 1..Len(updatedBooks') :
                          /\ updatedBooks'[k].id = books[i].id
                          /\ updatedBooks'[k].cover_url = Fallback]_vars

C5_Witness ==
    /\ req.kind = "list"
    /\ res.view = "index.ejs"
    /\ \E k \in 1..Len(updatedBooks) :
          Truthy(updatedBooks[k].cover_identifier) /\ updatedBooks[k].cover_url = Fallback
    /\ \E k \in 1..Len(updatedBooks) :
          ~Truthy(updatedBooks[k].cover_identifier) /\ updatedBooks[k].cover_url = Fallback

\* the cover URL a row has, given only its own identifier and lookup state
OwnCover(v, book, state) ==
    IF state = "pending" THEN Unset
    ELSE IF state \in {"nocover", "failed", "noitems"} THEN Fallback
    ELSE IF v = "openlibrary" THEN OpenLibraryUrl(book.cover_identifier)
    ELSE GoogleUrl(state)

\* C6: while the lookups of one listing complete in any order and with any
\* outcomes, the cover URL of each row is determined by that row's own cover
\* identifier and its own lookup outcome.
C6_LookupsIndependent ==
    ListPending =>
        \A i \in 1..Len(books) :
            books[i].cover_url = OwnCover(variant, books[i], lookup[i])

C6_Witness ==
    /\ ListPending
    /\ Len(books) = 2
    /\ finished = <<2, 1>>
    /\ lookup[2] = "failed"
    /\ lookup[1] \in {"ok", "vol1"}
    /\ books[1].cover_url # Fallback
    /\ books[2].cover_url = Fallback

\* C7: sort=rating lists by non-increasing rating, sort=alphabetical by
\* non-decreasing title, and both list exactly the records that the same
\* listing without sort key lists.
C7_SortedListing ==
    (ListAnswered /\ req.sort \in {"rating", "alphabetical"}) =>
        /\ req.sort = "rating" =>
              \A i, j \in 1..Len(Listed) : i < j => Listed[i].rating >= Listed[j].rating
        /\ req.sort = "alphabetical" =>
              \A i, j \in 1..Len(Listed) : i < j => StrLeq(Listed[i].title, Listed[j].title)
        /\ \E f \in DbSelect(store, req.search, SortQuery("")) :
              /\ Len(f) = Len(Listed)
              /\ Range(f) = {Stored(Listed[i]) : i \in 1..Len(Listed)}

C7_Witness ==
    /\ req.kind = "list"
    /\ req.sort = "rating"
    /\ res.view = "index.ejs"
    /\ Len(updatedBooks) = 2
    /\ updatedBooks[1].rating > updatedBooks[2].rating

\* the records whose title or author contains the text, ignoring case
SubstringHits(search) ==
    {r \in store : \/ Contains(LowerStr(r.title), LowerStr(search))
                   \/ Contains(LowerStr(r.author), LowerStr(search))}

\* C8: a listing with search text lists exactly the records whose title or
\* author contains the text as a substring, ignoring case; without search
\* text it lists every record.
C8_SearchIsSubstringMatch ==
    ListAnswered =>
        /\ Len(Listed) = Cardinality(Range(Listed))
        /\ {Stored(Listed[i]) : i \in 1..Len(Listed)}
              = IF req.search = <<>> THEN store ELSE SubstringHits(req.search)

\* C9: a create or edit that violates validation rules is answered with
\* status 400 and exactly one message per violated rule, and writes nothing.
C9_AllViolationsReported ==
    [][(req'.kind \in {"create", "edit"} /\ Violations(req'.body) # {})
        => /\ res'.status = 400
           /\ Range(res'.errors) = Violations(req'.body)
           /\ Len(res'.errors) = Cardinality(Violations(req'.body))
           /\ store' = store
           /\ nextId' = nextId]_vars

C9_Witness ==
    /\ req.kind \in {"create", "edit"}
    /\ res.status = 400
    /\ Len(res.errors) = 3
    /\ store # {}

\* C10: the listing is rendered only once no lookup is pending, and the
\* rendered records are in the order of the query result, whatever the order
\* in which the lookups completed.
C10_RenderAfterJoinInOrder ==
    [][(ListPending /\ res'.status = 200)
        => /\ AllSettled(lookup)
           /\ Len(finished) = Len(books)
           /\ Len(updatedBooks') = Len(books)
           /\ \A k \in 1..Len(books) : updatedBooks'[k].id = books[k].id]_vars

\* row 2 has no cover identifier and so was settled inside books.map, before
\* the lookup of row 1 ended
C10_Witness ==
    /\ req.kind = "list"
    /\ res.view = "index.ejs"
    /\ Len(updatedBooks) = 2
    /\ Truthy(updatedBooks[1].cover_identifier)
    /\ ~Truthy(updatedBooks[2].cover_identifier)

====
